---- MODULE Spec2Model ----
\* A model of the receipt processor of src/main.go: the two HTTP handlers
\* processReceipt and getReceiptPoints, the validation and the scoring they
\* perform, and the process-wide map `receipts` they share without a lock.
\*
\* Strings are sequences of one-character strings ("Target" is
\* <<"T","a","r","g","e","t">>). A Go pointer is a sequence of length 0 (nil) or
\* 1 (a pointer to its element). The JSON wire format is not modelled: a request
\* body is the ReceiptStruct that json.Decode fills in, together with the error
\* it returns.
EXTENDS Integers, Sequences, FiniteSets, TLC

\* ---------------------------------------------------------------- characters

Digits == {"0", "1", "2", "3", "4", "5", "6", "7", "8", "9"}

UpperLetters ==
    {"A", "B", "C", "D", "E", "F", "G", "H", "I", "J", "K", "L", "M",
     "N", "O", "P", "Q", "R", "S", "T", "U", "V", "W", "X", "Y", "Z"}

LowerLetters ==
    {"a", "b", "c", "d", "e", "f", "g", "h", "i", "j", "k", "l", "m",
     "n", "o", "p", "q", "r", "s", "t", "u", "v", "w", "x", "y", "z"}

\* \w of Go's regexp (RE2 syntax): [0-9A-Za-z_]
WordChars == Digits \cup UpperLetters \cup LowerLetters \cup {"_"}

\* \s of Go's regexp: [\t\n\f\r ]
SpaceChars == {" ", "\t", "\n", "\f", "\r"}

\* unicode.IsLetter and unicode.IsDigit, on the characters a retailer can hold
\* once it has matched ^[\w\s\-&]+$ (all of them ASCII)
IsLetter(c) == c \in UpperLetters \cup LowerLetters

IsDigit(c) == c \in Digits

DigitChars == <<"0", "1", "2", "3", "4", "5", "6", "7", "8", "9">>

DigitValue(c) == (CHOOSE i \in 1..10 : DigitChars[i] = c) - 1

\* Whether s is one or more characters, all of them in class
MatchOneOrMore(s, class) == Len(s) >= 1 /\ \A i \in 1..Len(s) : s[i] \in class

\* A run of decimal digits read as a number (small runs only)
RECURSIVE Atoi(_)
Atoi(s) == IF Len(s) = 0 THEN 0 ELSE 10 * Atoi(SubSeq(s, 1, Len(s) - 1)) + DigitValue(s[Len(s)])

\* ---------------------------------------------------------------- pointers

Nil == <<>>

IsNil(p) == Len(p) = 0

Ref(x) == <<x>>

Deref(p) == p[1]

\* ---------------------------------------------------------------- float64
\* strconv.ParseFloat(s, 64), price * 0.2, math.Mod and math.Ceil compute on
\* IEEE-754 binary64 values.  A binary64 value is modelled exactly as
\* m * 2^e with m a natural number of at most MantBits bits, held as a little-endian
\* sequence of limbs below Base (TLC's integers are 32 bits wide, a mantissa is
\* 53).  Every operation rounds to nearest, ties to even, as the hardware does.

MantBits == 53

Base == 2^14

\* F applied to the value of x. TLC hands an operator its arguments unevaluated
\* and evaluates them again at every use; binding x through a set evaluates it
\* once.
Strict(F(_), x) == CHOOSE r \in {F(v) : v \in {x}} : TRUE

\* a without its leading zero limbs
BigStrip(a) ==
    Strict(LAMBDA v :
        LET top == {i \in DOMAIN v : v[i] # 0}
        IN  IF top = {} THEN <<>> ELSE SubSeq(v, 1, CHOOSE i \in top : \A j \in top : j <= i),
        a)

BigIsZero(a) == \A i \in DOMAIN a : a[i] = 0

BigIsOdd(a) == Len(a) > 0 /\ a[1] % 2 = 1

RECURSIVE BigMulSmallFrom(_, _, _, _)
BigMulSmallFrom(a, k, i, carry) ==
    IF i > Len(a)
    THEN IF carry = 0 THEN <<>> ELSE <<carry>>
    ELSE LET t == a[i] * k + carry
         IN  <<t % Base>> \o BigMulSmallFrom(a, k, i + 1, t \div Base)

\* a * k + c for small k and c (k, c <= Base)
BigMulSmall(a, k, c) ==
    Strict(LAMBDA v : BigStrip(BigMulSmallFrom(v[1], v[2], 1, v[3])), <<a, k, c>>)

RECURSIVE BigAddFrom(_, _, _, _)
BigAddFrom(a, b, i, carry) ==
    IF i > Len(a) /\ i > Len(b)
    THEN IF carry = 0 THEN <<>> ELSE <<carry>>
    ELSE LET t == (IF i <= Len(a) THEN a[i] ELSE 0)
                + (IF i <= Len(b) THEN b[i] ELSE 0) + carry
         IN  <<t % Base>> \o BigAddFrom(a, b, i + 1, t \div Base)

BigAdd(a, b) == Strict(LAMBDA v : BigStrip(BigAddFrom(v[1], v[2], 1, 0)), <<a, b>>)

\* a * Base^n
BigShiftLimbs(a, n) ==
    Strict(LAMBDA v : IF BigIsZero(v) THEN <<>> ELSE [i \in 1..n |-> 0] \o v, a)

RECURSIVE BigMulFrom(_, _, _)
BigMulFrom(a, b, i) ==
    IF i > Len(b)
    THEN <<>>
    ELSE BigAdd(BigShiftLimbs(BigMulSmall(a, b[i], 0), i - 1), BigMulFrom(a, b, i + 1))

BigMul(a, b) == Strict(LAMBDA v : BigMulFrom(v[1], v[2], 1), <<a, b>>)

\* a divided by a small k (k <= Base): the quotient and the remainder
RECURSIVE BigDivSmallFrom(_, _, _, _)
BigDivSmallFrom(a, k, i, rem) ==
    IF i = 0
    THEN [q |-> <<>>, r |-> rem]
    ELSE LET t    == rem * Base + a[i]
             rest == BigDivSmallFrom(a, k, i - 1, t % k)
         IN  [q |-> rest.q \o <<t \div k>>, r |-> rest.r]

BigDivSmall(a, k) ==
    Strict(LAMBDA v :
        Strict(LAMBDA d : [q |-> BigStrip(d.q), r |-> d.r],
               BigDivSmallFrom(v, k, Len(v), 0)),
        a)

RECURSIVE SmallBitLen(_)
SmallBitLen(n) == IF n = 0 THEN 0 ELSE 1 + SmallBitLen(n \div 2)

LimbBits == SmallBitLen(Base) - 1

BigBitLen(a) ==
    Strict(LAMBDA s :
        IF Len(s) = 0 THEN 0 ELSE (Len(s) - 1) * LimbBits + SmallBitLen(s[Len(s)]),
        BigStrip(a))

\* a * 2^n
BigShiftLeft(a, n) ==
    BigShiftLimbs(BigMulSmall(a, 2^(n % LimbBits), 0), n \div LimbBits)

\* a divided by 2^n: the quotient, and whether any of the bits shifted out was set
BigShiftRight(a, n) ==
    Strict(LAMBDA v :
        LET limbs == n \div LimbBits
            low   == SubSeq(v, 1, IF limbs < Len(v) THEN limbs ELSE Len(v))
            high  == SubSeq(v, limbs + 1, Len(v))
        IN  Strict(LAMBDA d : [q |-> d.q, sticky |-> d.r # 0 \/ ~BigIsZero(low)],
                   BigDivSmall(high, 2^(n % LimbBits))),
        a)

RECURSIVE BigToIntFrom(_, _)
BigToIntFrom(a, i) == IF i > Len(a) THEN 0 ELSE a[i] + Base * BigToIntFrom(a, i + 1)

BigToInt(a) == Strict(LAMBDA v : BigToIntFrom(v, 1), a)

\* The binary64 nearest to (q + f) * 2^e, where 0 <= f < 1 and f # 0 iff sticky
\* (q carries at least MantBits + 2 bits whenever sticky): round to nearest, ties to even.
RoundToFloat64(q, sticky, e) ==
    Strict(LAMBDA v :
        LET len   == BigBitLen(v)
            shift == len - MantBits
        IN  IF len <= MantBits
            THEN [m |-> v, e |-> e]
            ELSE Strict(LAMBDA t :
                     Strict(LAMBDA m0 :
                         LET up == BigIsOdd(t.q) /\ (sticky \/ t.sticky \/ BigIsOdd(m0))
                         IN  [m |-> IF up THEN BigMulSmall(m0, 1, 1) ELSE m0, e |-> e + shift],
                         BigShiftRight(t.q, 1).q),
                     BigShiftRight(v, shift - 1)),
        BigStrip(q))

\* The decimal syntax of strconv.ParseFloat that the model's inputs use: digits
\* with at most one point and at least one digit. The inputs carry no sign, no
\* exponent, no hexadecimal form and none of the words inf and nan, so every
\* other input is a syntax error.
IsDecimalSyntax(s) ==
    /\ \A i \in 1..Len(s) : s[i] \in Digits \cup {"."}
    /\ Cardinality({i \in 1..Len(s) : s[i] = "."}) <= 1
    /\ \E i \in 1..Len(s) : s[i] \in Digits

DigitsOf(s) == SelectSeq(s, LAMBDA c : c \in Digits)

FractionLength(s) ==
    IF \E i \in 1..Len(s) : s[i] = "."
    THEN Len(s) - (CHOOSE i \in 1..Len(s) : s[i] = ".")
    ELSE 0

\* The number the first n of the digits ds write
RECURSIVE BigFromDigits(_, _)
BigFromDigits(ds, n) ==
    IF n = 0 THEN <<>> ELSE BigMulSmall(BigFromDigits(ds, n - 1), 10, DigitValue(ds[n]))

\* q divided by 10^f: the quotient, and whether the division left a remainder
RECURSIVE BigDivPow10(_, _)
BigDivPow10(q, f) ==
    IF f = 0
    THEN [q |-> q, sticky |-> FALSE]
    ELSE Strict(LAMBDA rest :
             Strict(LAMBDA d : [q |-> d.q, sticky |-> rest.sticky \/ d.r # 0],
                    BigDivSmall(rest.q, 10)),
             BigDivPow10(q, f - 1))

Float64Zero == [m |-> <<>>, e |-> 0]

\* strconv.ParseFloat(s, 64), its error dropped as the callers drop it: the
\* binary64 nearest to the decimal s, or 0 when s is a syntax error.
ParseFloat(s) ==
    IF ~IsDecimalSyntax(s)
    THEN Float64Zero
    ELSE LET f     == FractionLength(s)
             guard == 5 + f
         IN  Strict(LAMBDA scaled :
                 RoundToFloat64(scaled.q, scaled.sticky, 0 - guard * LimbBits),
                 BigDivPow10(BigShiftLimbs(BigFromDigits(DigitsOf(s), Len(DigitsOf(s))), guard), f))

\* x * y in binary64
Float64Mul(x, y) ==
    Strict(LAMBDA v : RoundToFloat64(BigMul(v[1].m, v[2].m), FALSE, v[1].e + v[2].e), <<x, y>>)

\* math.Mod(x, 2^k) == 0 for a finite x: x is a whole multiple of 2^k
ModPow2IsZero(x, k) ==
    Strict(LAMBDA v :
        BigIsZero(v.m) \/ v.e >= k \/ ~BigShiftRight(v.m, k - v.e).sticky,
        x)

\* int64(math.Ceil(x)) for x >= 0 (values below 2^31 only)
CeilInt64(x) ==
    Strict(LAMBDA v :
        IF v.e >= 0
        THEN BigToInt(BigShiftLeft(v.m, v.e))
        ELSE Strict(LAMBDA d : BigToInt(d.q) + (IF d.sticky THEN 1 ELSE 0),
                    BigShiftRight(v.m, 0 - v.e)),
        x)

\* ---------------------------------------------------------------- time.Parse

IsLeap(year) == year % 4 = 0 /\ (year % 100 # 0 \/ year % 400 = 0)

daysIn(month, year) ==
    IF month = 2 THEN (IF IsLeap(year) THEN 29 ELSE 28)
    ELSE IF month \in {4, 6, 9, 11} THEN 30 ELSE 31

AllDigits(s, from, to) == \A i \in from..to : s[i] \in Digits

\* time.Parse("2006-01-02", s): a four-digit year, a two-digit month and a
\* two-digit day of that month, and nothing after them.
ParseDate(s) ==
    IF /\ Len(s) = 10
       /\ AllDigits(s, 1, 4) /\ s[5] = "-" /\ AllDigits(s, 6, 7) /\ s[8] = "-"
       /\ AllDigits(s, 9, 10)
    THEN LET year  == Atoi(SubSeq(s, 1, 4))
             month == Atoi(SubSeq(s, 6, 7))
             day   == Atoi(SubSeq(s, 9, 10))
         IN  [err   |-> ~(month \in 1..12 /\ day >= 1 /\ day <= daysIn(month, year)),
              year  |-> year, month |-> month, day |-> day]
    ELSE [err |-> TRUE, year |-> 1, month |-> 1, day |-> 1]

\* time.Parse("15:04", s): the layout element 15 reads one or two digits (the
\* standard library reads it with getnum(value, false)), 04 reads exactly two.
ParseTime(s) ==
    LET hourLen == IF Len(s) >= 2 /\ s[1] \in Digits /\ s[2] \in Digits THEN 2
                   ELSE IF Len(s) >= 1 /\ s[1] \in Digits THEN 1 ELSE 0
    IN  IF /\ hourLen > 0
           /\ Len(s) = hourLen + 3
           /\ s[hourLen + 1] = ":"
           /\ AllDigits(s, hourLen + 2, hourLen + 3)
        THEN LET hour == Atoi(SubSeq(s, 1, hourLen))
                 min  == Atoi(SubSeq(s, hourLen + 2, hourLen + 3))
             IN  [err |-> ~(hour < 24 /\ min < 60), hour |-> hour, min |-> min]
        ELSE [err |-> TRUE, hour |-> 0, min |-> 0]

\* ---------------------------------------------------------------- validation

\* regexp.MatchString("^[\\w\\s\\-&]+$", *rs.Retailer)
matchRetailer(s) == MatchOneOrMore(s, WordChars \cup SpaceChars \cup {"-", "&"})

\* shortDescriptionRegExp: ^[\w\s\-]+$
shortDescriptionRegExp(s) == MatchOneOrMore(s, WordChars \cup SpaceChars \cup {"-"})

\* priceRegExp: ^\d+\.\d{2}$
priceRegExp(s) ==
    /\ Len(s) >= 4
    /\ s[Len(s) - 2] = "."
    /\ AllDigits(s, 1, Len(s) - 3)
    /\ AllDigits(s, Len(s) - 1, Len(s))

\* regexp.MatchString("^\\S+$", id)
matchId(s) == Len(s) >= 1 /\ \A i \in 1..Len(s) : s[i] \notin SpaceChars

\* The loop over *rs.Items: the message of the first check that fails on the
\* first item that fails one, "" when every item passes.
RECURSIVE CheckItems(_, _)
CheckItems(items, i) ==
    IF i > Len(items) THEN ""
    ELSE IF IsNil(items[i].ShortDescription) \/ IsNil(items[i].Price)
         THEN "item with missing fields"
    ELSE IF ~shortDescriptionRegExp(Deref(items[i].ShortDescription))
         THEN "invalid short description in the item"
    ELSE IF ~priceRegExp(Deref(items[i].Price))
         THEN "invalid price in the item"
    ELSE CheckItems(items, i + 1)

\* The checks of processReceipt in the order the handler runs them: the
\* message it prints for the first that fails, "" for a receipt it accepts.
ValidateItemsFirst(body) ==
    LET rs == body.rs
    IN  IF \/ body.err
           \/ IsNil(rs.Retailer) \/ IsNil(rs.PurchaseDate) \/ IsNil(rs.PurchaseTime)
           \/ IsNil(rs.Items) \/ IsNil(rs.Total)
        THEN "missing fields"
        ELSE IF Len(Deref(rs.Items)) < 1 THEN "no items"
        ELSE IF ~matchRetailer(Deref(rs.Retailer)) THEN "invalid retailer"
        ELSE IF ParseDate(Deref(rs.PurchaseDate)).err THEN "invalid purchase date"
        ELSE IF ParseTime(Deref(rs.PurchaseTime)).err THEN "invalid purchase time"
        ELSE CheckItems(Deref(rs.Items), 1)

Validate(body) ==
    LET rs == body.rs
    IN  IF \/ body.err
           \/ IsNil(rs.Retailer) \/ IsNil(rs.PurchaseDate) \/ IsNil(rs.PurchaseTime)
           \/ IsNil(rs.Items) \/ IsNil(rs.Total)
        THEN "missing fields"
        ELSE IF ~matchRetailer(Deref(rs.Retailer)) THEN "invalid retailer"
        ELSE IF ParseDate(Deref(rs.PurchaseDate)).err THEN "invalid purchase date"
        ELSE IF ParseTime(Deref(rs.PurchaseTime)).err THEN "invalid purchase time"
        ELSE IF Len(Deref(rs.Items)) < 1 THEN "no items"
        ELSE CheckItems(Deref(rs.Items), 1)

\* ---------------------------------------------------------------- scoring

RECURSIVE CountAlphanumeric(_, _)
CountAlphanumeric(s, i) ==
    IF i > Len(s) THEN 0
    ELSE (IF IsLetter(s[i]) \/ IsDigit(s[i]) THEN 1 ELSE 0) + CountAlphanumeric(s, i + 1)

\* One point for every alphanumeric character in the retailer name
RetailerPoints(receipt) == CountAlphanumeric(Deref(receipt.Retailer), 1)

\* 50 points if math.Mod(total, 1) == 0 and 25 if math.Mod(total, 0.25) == 0,
\* with total the binary64 that strconv.ParseFloat makes of *receipt.Total
TotalPoints(receipt) ==
    Strict(LAMBDA total :
        (IF ModPow2IsZero(total, 0) THEN 50 ELSE 0)
        + (IF ModPow2IsZero(total, 0 - 2) THEN 25 ELSE 0),
        ParseFloat(Deref(receipt.Total)))

\* 5 points for every two items on the receipt
PairPoints(receipt) == (Len(Deref(receipt.Items)) \div 2) * 5

\* strings.TrimSpace, on the characters a description can hold once it has
\* matched ^[\w\s\-]+$
RECURSIVE TrimLeft(_)
TrimLeft(s) == IF Len(s) > 0 /\ s[1] \in SpaceChars THEN TrimLeft(Tail(s)) ELSE s

RECURSIVE TrimRight(_)
TrimRight(s) ==
    IF Len(s) > 0 /\ s[Len(s)] \in SpaceChars THEN TrimRight(SubSeq(s, 1, Len(s) - 1)) ELSE s

TrimSpace(s) == TrimRight(TrimLeft(s))

\* The untyped constant 0.2 as the float64 the compiler makes of it
Float64Fifth == ParseFloat(<<"0", ".", "2">>)

ItemPointsFloor(item) ==
    LET trimmedLength == Len(TrimSpace(Deref(item.ShortDescription)))
    IN  IF trimmedLength % 3 = 0
        THEN Strict(LAMBDA x : BigToInt(BigShiftRight(x.m, 0 - x.e).q),
                    Float64Mul(ParseFloat(Deref(item.Price)), Float64Fifth))
        ELSE 0

\* int64(math.Ceil(price * 0.2)) if the trimmed length of the description is a
\* multiple of 3
ItemPoints(item) ==
    LET trimmedLength == Len(TrimSpace(Deref(item.ShortDescription)))
    IN  IF trimmedLength % 3 = 0
        THEN CeilInt64(Float64Mul(ParseFloat(Deref(item.Price)), Float64Fifth))
        ELSE 0

RECURSIVE ItemsPoints(_, _)
ItemsPoints(items, i) ==
    IF i > Len(items) THEN 0 ELSE ItemPoints(items[i]) + ItemsPoints(items, i + 1)

\* 6 points if the day in the purchase date is odd
DayPoints(receipt) ==
    IF ParseDate(Deref(receipt.PurchaseDate)).day % 2 # 0 THEN 6 ELSE 0

\* 10 points if the hour of the purchase time is 14 or 15
TimePoints(receipt) ==
    LET parsedTime == ParseTime(Deref(receipt.PurchaseTime))
    IN  IF parsedTime.hour >= 14 /\ parsedTime.hour < 16 THEN 10 ELSE 0

\* The points getReceiptPoints counts for a stored receipt
Points(receipt) ==
    RetailerPoints(receipt) + TotalPoints(receipt) + PairPoints(receipt)
    + ItemsPoints(Deref(receipt.Items), 1) + DayPoints(receipt) + TimePoints(receipt)

\* ---------------------------------------------------------------- requests

Item(description, price) == [ShortDescription |-> Ref(description), Price |-> Ref(price)]

Receipt(retailer, purchaseDate, purchaseTime, items, total) ==
    [Retailer |-> Ref(retailer), PurchaseDate |-> Ref(purchaseDate),
     PurchaseTime |-> Ref(purchaseTime), Items |-> Ref(items), Total |-> Ref(total)]

\* rs := &ReceiptStruct{}: every field nil
EmptyReceipt ==
    [Retailer |-> Nil, PurchaseDate |-> Nil, PurchaseTime |-> Nil, Items |-> Nil, Total |-> Nil]

\* What decoder.Decode(rs) leaves behind: the error it returns and the struct
Decoded(rs) == [err |-> FALSE, rs |-> rs]

NotJSON == [err |-> TRUE, rs |-> EmptyReceipt]

Apple == Item(<<"a", "b", "c">>, <<"5", ".", "0", "0">>)

Plain == Receipt(<<"M", "&", "M">>, <<"2", "0", "2", "2", "-", "0", "1", "-", "0", "2">>, <<"1", "4", ":", "0", "0">>, <<Apple>>, <<"5", ".", "0", "0">>)

\* Receipts that break one rule of the schema each
NoRetailer == [Plain EXCEPT !.Retailer = Nil]
NoPurchaseDate == [Plain EXCEPT !.PurchaseDate = Nil]
NoPurchaseTime == [Plain EXCEPT !.PurchaseTime = Nil]
NoItems == [Plain EXCEPT !.Items = Nil]
NoTotal == [Plain EXCEPT !.Total = Nil]
BadRetailer == [Plain EXCEPT !.Retailer = Ref(<<"A", "!">>)]
EmptyRetailer == [Plain EXCEPT !.Retailer = Ref(<<>>)]
BadDate == [Plain EXCEPT !.PurchaseDate = Ref(<<"2", "0", "2", "3", "-", "0", "2", "-", "3", "0">>)]
NotLeapDate == [Plain EXCEPT !.PurchaseDate = Ref(<<"2", "0", "2", "3", "-", "0", "2", "-", "2", "9">>)]
BadDateShape == [Plain EXCEPT !.PurchaseDate = Ref(<<"2", "0", "2", "3", "-", "2", "-", "0", "3">>)]
BadTime == [Plain EXCEPT !.PurchaseTime = Ref(<<"2", "4", ":", "0", "0">>)]
BadMinute == [Plain EXCEPT !.PurchaseTime = Ref(<<"1", "2", ":", "6", "0">>)]
ShortHour == [Plain EXCEPT !.PurchaseTime = Ref(<<"9", ":", "3", "0">>)]
EmptyItems == [Plain EXCEPT !.Items = Ref(<<>>)]
ItemNoPrice == [Plain EXCEPT !.Items = Ref(<<[Apple EXCEPT !.Price = Nil]>>)]
ItemNoDescription == [Plain EXCEPT !.Items = Ref(<<Apple, [Apple EXCEPT !.ShortDescription = Nil]>>)]
BadDescription == [Plain EXCEPT !.Items = Ref(<<Item(<<"a", "!">>, <<"5", ".", "0", "0">>)>>)]
OneDecimalPrice == [Plain EXCEPT !.Items = Ref(<<Apple, Item(<<"a", "b", "c">>, <<"1", ".", "5">>)>>)]
ThreeDecimalPrice == [Plain EXCEPT !.Items = Ref(<<Item(<<"a", "b", "c">>, <<"1", ".", "5", "0", "5">>)>>)]
BadTotal == [Plain EXCEPT !.Total = Ref(<<"a", "b", "c">>)]
\* Receipts that break two rules
EmptyItemsBadRetailer == [EmptyItems EXCEPT !.Retailer = Ref(<<"A", "!">>)]
EmptyItemsBadTime == [EmptyItems EXCEPT !.PurchaseTime = Ref(<<"2", "4", ":", "0", "0">>)]
BadDateBadPrice == [ThreeDecimalPrice EXCEPT !.PurchaseDate = Ref(<<"2", "0", "2", "3", "-", "0", "2", "-", "3", "0">>)]

\* The two reference receipts
ScenarioA ==
    Receipt(<<"T", "a", "r", "g", "e", "t">>, <<"2", "0", "2", "2", "-", "0", "1", "-", "0", "1">>, <<"1", "3", ":", "0", "1">>,
            <<Item(<<"M", "o", "u", "n", "t", "a", "i", "n", " ", "D", "e", "w", " ", "1", "2", "P", "K">>, <<"6", ".", "4", "9">>),
              Item(<<"E", "m", "i", "l", "s", " ", "C", "h", "e", "e", "s", "e", " ", "P", "i", "z", "z", "a">>, <<"1", "2", ".", "2", "5">>),
              Item(<<"K", "n", "o", "r", "r", " ", "C", "r", "e", "a", "m", "y", " ", "C", "h", "i", "c", "k", "e", "n">>, <<"1", ".", "2", "6">>),
              Item(<<"D", "o", "r", "i", "t", "o", "s", " ", "N", "a", "c", "h", "o", " ", "C", "h", "e", "e", "s", "e">>, <<"3", ".", "3", "5">>),
              Item(<<" ", " ", " ", "K", "l", "a", "r", "b", "r", "u", "n", "n", " ", "1", "2", "-", "P", "K", " ", "1", "2", " ", "F", "L", " ", "O", "Z", " ", " ">>, <<"1", "2", ".", "0", "0">>)>>,
            <<"3", "5", ".", "3", "5">>)

ScenarioB ==
    Receipt(<<"M", "&", "M", " ", "C", "o", "r", "n", "e", "r", " ", "M", "a", "r", "k", "e", "t">>, <<"2", "0", "2", "2", "-", "0", "3", "-", "2", "0">>, <<"1", "4", ":", "3", "3">>,
            <<Item(<<"G", "a", "t", "o", "r", "a", "d", "e">>, <<"2", ".", "2", "5">>), Item(<<"G", "a", "t", "o", "r", "a", "d", "e">>, <<"2", ".", "2", "5">>),
              Item(<<"G", "a", "t", "o", "r", "a", "d", "e">>, <<"2", ".", "2", "5">>), Item(<<"G", "a", "t", "o", "r", "a", "d", "e">>, <<"2", ".", "2", "5">>)>>,
            <<"9", ".", "0", "0">>)

\* Receipts that exercise the scoring rules at their edges
LeapDay == [Plain EXCEPT !.PurchaseDate = Ref(<<"2", "0", "2", "4", "-", "0", "2", "-", "2", "9">>), !.PurchaseTime = Ref(<<"1", "6", ":", "0", "0">>),
                         !.Total = Ref(<<"0", ".", "0", "0">>)]
Quarter == [Plain EXCEPT !.Retailer = Ref(<<"a", "_", "b", " ", "7">>), !.PurchaseTime = Ref(<<"1", "5", ":", "5", "9">>),
                         !.Items = Ref(<<Item(<<" ", "a", "b", "-", "c", "d", " ">>, <<"0", ".", "0", "1">>), Item(<<"a", "b">>, <<"7", ".", "0", "0">>)>>),
                         !.Total = Ref(<<"1", ".", "2", "5">>)]
Dime == [Plain EXCEPT !.Items = Ref(<<Item(<<"a", "b", "c", "d", "e", "f">>, <<"1", "0", ".", "0", "1">>), Item(<<"a", "b", "c">>, <<"0", ".", "0", "0">>),
                                      Item(<<"x", "y", "z">>, <<"4", ".", "9", "9">>)>>),
                      !.Total = Ref(<<"0", ".", "1", "0">>)]
BlankDescription == [Plain EXCEPT !.Items = Ref(<<Item(<<" ">>, <<"5", ".", "0", "0">>)>>)]
HugeTotal == [Plain EXCEPT !.Total = Ref(<<"1", "4", "0", "7", "3", "7", "4", "8", "8", "3", "5", "5", "3", "2", "8", ".", "0", "1">>)]

MalformedBodies ==
    {NotJSON} \cup
    {Decoded(rs) : rs \in
        {NoRetailer, NoPurchaseDate, NoPurchaseTime, NoItems, NoTotal, BadRetailer,
         EmptyRetailer, BadDate, NotLeapDate, BadDateShape, BadTime, BadMinute, EmptyItems,
         ItemNoPrice, ItemNoDescription, BadDescription, OneDecimalPrice,
         ThreeDecimalPrice, EmptyItemsBadRetailer, EmptyItemsBadTime, BadDateBadPrice}}

\* The bodies of the concurrent specification, and those of the sequential one
ConcurrentBodies == {Decoded(rs) : rs \in {BadRetailer, Plain, BadTotal}}

AllBodies ==
    MalformedBodies \cup
    {Decoded(rs) : rs \in {Plain, ShortHour, BadTotal, ScenarioA, ScenarioB, LeapDay, Quarter,
                           Dime, BlankDescription, HugeTotal}}

\* The values uuid.New().String() draws from: a space small enough for two
\* draws to collide
NumUUIDs == 2

UUIDs == {<<"u", DigitChars[n + 1]>> : n \in 1..NumUUIDs}

\* The {id} of a /receipts/{id}/points request
PathIds == UUIDs \cup {<<>>, <<"a", " ", "b">>}

StatusOK == 200
StatusBadRequest == 400
StatusNotFound == 404
StatusMethodNotAllowed == 405

NoId == <<>>

Response(status, Id, points, log) == [status |-> status, Id |-> Id, Points |-> points, log |-> log]

\* No response written (yet, or ever: a handler that panicked)
NoResponse == Response(0, NoId, 0, "")

Panicked == Response(0, NoId, 0, "panic: nil pointer dereference")

Request(route, method, body, pathId) ==
    [route |-> route, method |-> method, body |-> body, pathId |-> pathId]

NoRequest == Request("", "", NotJSON, <<>>)

\* The requests to /receipts/process: a POST of each body, and one with the wrong verb
ProcessRequests(bodies) ==
    {Request("process", "POST", body, <<>>) : body \in bodies}
    \cup {Request("process", "GET", NotJSON, <<>>)}

\* The requests to /receipts/{id}/points: a GET of each id, and one with the wrong verb
PointsRequests ==
    {Request("points", "GET", NotJSON, pathId) : pathId \in PathIds}
    \cup {Request("points", "POST", NotJSON, CHOOSE u \in UUIDs : TRUE)}

\* ---------------------------------------------------------------- the server

\* The most requests net/http serves at once in the model (one goroutine each)
MaxConcurrent == 2

Handlers == 1..MaxConcurrent

VARIABLES
    receipts,   \* var receipts: the map from identifier to *ReceiptStruct
    pc,         \* where each handler goroutine stands
    req,        \* the request each handler serves
    id,         \* processReceipt's local id
    raced,      \* how the map access a handler has in progress races with others
    resp,       \* the response each handler has written
    issued,     \* the <<identifier, receipt>> pairs clients have been answered with
    known,      \* whether the id a handler was asked about was in the map on arrival
    crashed     \* the runtime has thrown a fatal error and the process is gone

vars == <<receipts, pc, req, id, raced, resp, issued, known, crashed>>

Init ==
    /\ receipts = <<>>
    /\ pc = [h \in Handlers |-> "idle"]
    /\ req = [h \in Handlers |-> NoRequest]
    /\ id = [h \in Handlers |-> NoId]
    /\ raced = [h \in Handlers |-> "no"]
    /\ resp = [h \in Handlers |-> NoResponse]
    /\ issued = {}
    /\ known = [h \in Handlers |-> FALSE]
    /\ crashed = FALSE

\* receipts[id] != nil
wasReceiptProcessed(key) == key \in DOMAIN receipts

\* A handler is inside a read of the map, or inside a write to it
Writing(h) == pc[h] = "saving"

Accessing(h) == pc[h] \in {"wasReceiptProcessed", "saving", "lookup", "load"}

\* Handler h starts an access to the map. No lock orders it against the
\* accesses in progress, so it races with each of them that is a write, and
\* with all of them if it is a write itself. raced[g] is "writer" when g's
\* access overlaps another handler's write, "reader" when g writes and its
\* write overlaps only reads, "no" otherwise.
BeginAccess(h, writes) ==
    [g \in Handlers |->
        IF g = h
        THEN IF \E o \in Handlers \ {h} : Writing(o) THEN "writer"
             ELSE IF writes /\ \E o \in Handlers \ {h} : Accessing(o) THEN "reader"
             ELSE "no"
        ELSE IF Accessing(g) /\ writes THEN "writer"
             ELSE IF Writing(g) /\ raced[g] = "no" THEN "reader"
             ELSE raced[g]]

EndAccess(h) == [raced EXCEPT ![h] = "no"]

\* What a read of receipts[key] can find. Go leaves a map read that runs
\* while another goroutine writes the map undefined: it may also miss a key
\* that is there.
ReadResults(h, key) ==
    {wasReceiptProcessed(key)} \cup (IF raced[h] = "writer" THEN {FALSE} ELSE {})

\* Whether a write lands. A write that runs while another goroutine writes the
\* map is undefined: it may also be lost.
WriteResults(h) == {TRUE} \cup (IF raced[h] = "writer" THEN {FALSE} ELSE {})

Respond(h, r) == resp' = [resp EXCEPT ![h] = r] /\ pc' = [pc EXCEPT ![h] = "done"]

\* processReceipt up to its first use of the map: the method check, the decoding
\* and the validation
processReceipt(h, r) ==
    /\ ~crashed
    /\ pc[h] = "idle"
    /\ req' = [req EXCEPT ![h] = r]
    /\ IF r.method # "POST"
       THEN Respond(h, Response(StatusMethodNotAllowed, NoId, 0, ""))
       ELSE IF Validate(r.body) # ""
       THEN Respond(h, Response(StatusBadRequest, NoId, 0, Validate(r.body)))
       ELSE pc' = [pc EXCEPT ![h] = "generate"] /\ UNCHANGED resp
    /\ UNCHANGED <<receipts, id, raced, issued, known, crashed>>

\* id = uuid.New(), and the call of wasReceiptProcessed(id.String()) starts
Generate(h, u) ==
    /\ ~crashed
    /\ pc[h] = "generate"
    /\ id' = [id EXCEPT ![h] = u]
    /\ pc' = [pc EXCEPT ![h] = "wasReceiptProcessed"]
    /\ raced' = BeginAccess(h, FALSE)
    /\ UNCHANGED <<receipts, req, resp, issued, known, crashed>>

\* wasReceiptProcessed returns: the loop draws again, or ends
WasReceiptProcessedReturns(h, processed) ==
    /\ ~crashed
    /\ pc[h] = "wasReceiptProcessed"
    /\ processed \in ReadResults(h, id[h])
    /\ pc' = [pc EXCEPT ![h] = IF processed THEN "generate" ELSE "save"]
    /\ raced' = EndAccess(h)
    /\ UNCHANGED <<receipts, req, id, resp, issued, known, crashed>>

\* receipts[id.String()] = rs starts
SaveBegin(h) ==
    /\ ~crashed
    /\ pc[h] = "save"
    /\ pc' = [pc EXCEPT ![h] = "saving"]
    /\ raced' = BeginAccess(h, TRUE)
    /\ UNCHANGED <<receipts, req, id, resp, issued, known, crashed>>

\* receipts[id.String()] = rs ends, and the handler answers with the id
SaveEnd(h, landed) ==
    /\ ~crashed
    /\ pc[h] = "saving"
    /\ landed \in WriteResults(h)
    /\ receipts' = IF landed
                   THEN [key \in DOMAIN receipts \cup {id[h]} |->
                            IF key = id[h] THEN req[h].body.rs ELSE receipts[key]]
                   ELSE receipts
    /\ Respond(h, Response(StatusOK, id[h], 0, ""))
    /\ issued' = issued \cup {<<id[h], req[h].body.rs>>}
    /\ raced' = EndAccess(h)
    /\ UNCHANGED <<req, id, known, crashed>>

\* getReceiptPoints up to its first use of the map: the method check and the
\* id pattern; then the call of wasReceiptProcessed(id) starts
getReceiptPoints(h, r) ==
    /\ ~crashed
    /\ pc[h] = "idle"
    /\ req' = [req EXCEPT ![h] = r]
    /\ IF r.method # "GET"
       THEN Respond(h, Response(StatusMethodNotAllowed, NoId, 0, "")) /\ UNCHANGED raced
       ELSE IF ~matchId(r.pathId)
       THEN Respond(h, Response(StatusNotFound, NoId, 0, "Invalid receipt id"))
            /\ UNCHANGED raced
       ELSE /\ pc' = [pc EXCEPT ![h] = "lookup"]
            /\ raced' = BeginAccess(h, FALSE)
            /\ UNCHANGED resp
    /\ known' = [known EXCEPT ![h] = wasReceiptProcessed(r.pathId)]
    /\ UNCHANGED <<receipts, id, issued, crashed>>

\* wasReceiptProcessed(id) returns
LookupReturns(h, processed) ==
    /\ ~crashed
    /\ pc[h] = "lookup"
    /\ processed \in ReadResults(h, req[h].pathId)
    /\ IF processed
       THEN pc' = [pc EXCEPT ![h] = "found"] /\ UNCHANGED resp
       ELSE Respond(h, Response(StatusNotFound, NoId, 0, "No receipt with the such id"))
    /\ raced' = EndAccess(h)
    /\ UNCHANGED <<receipts, req, id, issued, known, crashed>>

\* receipt := receipts[id] starts
LoadBegin(h) ==
    /\ ~crashed
    /\ pc[h] = "found"
    /\ pc' = [pc EXCEPT ![h] = "load"]
    /\ raced' = BeginAccess(h, FALSE)
    /\ UNCHANGED <<receipts, req, id, resp, issued, known, crashed>>

\* receipt := receipts[id] ends, the points are counted and written. A nil
\* receipt panics at *receipt.Retailer; net/http recovers the panic and closes
\* the connection without a response.
LoadEnd(h, loaded) ==
    /\ ~crashed
    /\ pc[h] = "load"
    /\ loaded \in ReadResults(h, req[h].pathId)
    /\ Respond(h, IF loaded
                  THEN Response(StatusOK, NoId, Points(receipts[req[h].pathId]), "")
                  ELSE Panicked)
    /\ raced' = EndAccess(h)
    /\ UNCHANGED <<receipts, req, id, issued, known, crashed>>

\* The handler has returned; its goroutine serves the next request
Release(h) ==
    /\ ~crashed
    /\ pc[h] = "done"
    /\ pc' = [pc EXCEPT ![h] = "idle"]
    /\ req' = [req EXCEPT ![h] = NoRequest]
    /\ id' = [id EXCEPT ![h] = NoId]
    /\ resp' = [resp EXCEPT ![h] = NoResponse]
    /\ known' = [known EXCEPT ![h] = FALSE]
    /\ UNCHANGED <<receipts, raced, issued, crashed>>

\* The runtime notices a racing map access and throws "fatal error: concurrent
\* map writes" (or "concurrent map read and map write"): the process exits, and
\* its map and its goroutines go with it.
Fatal ==
    /\ ~crashed
    /\ \E h \in Handlers : Accessing(h) /\ raced[h] # "no"
    /\ crashed' = TRUE
    /\ receipts' = <<>>
    /\ pc' = [h \in Handlers |-> "idle"]
    /\ req' = [h \in Handlers |-> NoRequest]
    /\ id' = [h \in Handlers |-> NoId]
    /\ raced' = [h \in Handlers |-> "no"]
    /\ resp' = [h \in Handlers |-> NoResponse]
    /\ known' = [h \in Handlers |-> FALSE]
    /\ UNCHANGED issued

\* One step of handler h, its request drawn from bodies
Serve(h, bodies) ==
    \/ \E r \in ProcessRequests(bodies) : processReceipt(h, r)
    \/ \E u \in UUIDs : Generate(h, u)
    \/ \E processed \in BOOLEAN : WasReceiptProcessedReturns(h, processed)
    \/ SaveBegin(h)
    \/ \E landed \in BOOLEAN : SaveEnd(h, landed)
    \/ \E r \in PointsRequests : getReceiptPoints(h, r)
    \/ \E processed \in BOOLEAN : LookupReturns(h, processed)
    \/ LoadBegin(h)
    \/ \E loaded \in BOOLEAN : LoadEnd(h, loaded)
    \/ Release(h)

\* The server: every handler runs concurrently with every other
Next == (\E h \in Handlers : Serve(h, ConcurrentBodies)) \/ Fatal

Spec == Init /\ [][Next]_vars

\* The server given one request at a time
SeqNext == Serve(1, AllBodies)

SeqSpec == Init /\ [][SeqNext]_vars

\* ---------------------------------------------------------------- properties

\* The handler h writes its response in this step
Answers(h) == pc[h] # "done" /\ pc'[h] = "done"

\* The schema's HH:MM: two digits, a colon, two digits, 00-23 and 00-59
IsClockTime(s) ==
    /\ Len(s) = 5
    /\ AllDigits(s, 1, 2) /\ s[3] = ":" /\ AllDigits(s, 4, 5)
    /\ Atoi(SubSeq(s, 1, 2)) < 24
    /\ Atoi(SubSeq(s, 4, 5)) < 60

\* The schema's item: both fields present, each matching its pattern
IsSchemaItem(item) ==
    IF IsNil(item.ShortDescription) \/ IsNil(item.Price)
    THEN FALSE
    ELSE shortDescriptionRegExp(Deref(item.ShortDescription)) /\ priceRegExp(Deref(item.Price))

\* A body malformed in one of the ways C1 lists
Malformed(body) ==
    IF \/ body.err
       \/ IsNil(body.rs.Retailer) \/ IsNil(body.rs.PurchaseDate)
       \/ IsNil(body.rs.PurchaseTime) \/ IsNil(body.rs.Items) \/ IsNil(body.rs.Total)
    THEN TRUE
    ELSE \/ ~matchRetailer(Deref(body.rs.Retailer))
         \/ ParseDate(Deref(body.rs.PurchaseDate)).err
         \/ ~IsClockTime(Deref(body.rs.PurchaseTime))
         \/ Len(Deref(body.rs.Items)) = 0
         \/ \E i \in 1..Len(Deref(body.rs.Items)) : ~IsSchemaItem(Deref(body.rs.Items)[i])

\* C1: every POST to /receipts/process whose receipt is malformed (a missing
\* field, a bad retailer, a purchase date that is no calendar date, a purchase
\* time that is no 24-hour HH:MM, no items, an item with a missing field, a bad
\* description or a bad price) is answered 400 with no identifier, and leaves
\* the map as it was.
C1_MalformedRejected ==
    [][\A h \in Handlers :
        (Answers(h) /\ req'[h].route = "process" /\ req'[h].method = "POST"
         /\ Malformed(req'[h].body))
        => /\ resp'[h].status = StatusBadRequest
           /\ resp'[h].Id = NoId
           /\ receipts' = receipts]_vars

\* C2: the identifiers the server answers with are pairwise distinct: no
\* submit is answered with an identifier a client already holds.
C2_DistinctIdentifiers ==
    [][\A h \in Handlers :
        (Answers(h) /\ req'[h].route = "process" /\ resp'[h].status = StatusOK)
        => resp'[h].Id \notin {p[1] : p \in issued}]_vars

\* C3: no handler writes the map while another handler reads or writes it.
C3_MutualExclusion ==
    \A h \in Handlers : \A g \in Handlers \ {h} : ~(Writing(h) /\ Accessing(g))

\* C4: every receipt in the map, and every receipt an identifier was returned
\* for, has a total that matches the price pattern ^\d+\.\d{2}$.
C4_TotalMatchesPattern ==
    /\ \A key \in DOMAIN receipts : priceRegExp(Deref(receipts[key].Total))
    /\ \A p \in issued : priceRegExp(Deref(p[2].Total))

\* C5: the map is append-only: while the process lives, an identifier that was
\* returned for a receipt maps to that receipt after every later step, and no
\* step of getReceiptPoints changes the map.
C5_AppendOnly ==
    [][/\ ~crashed' =>
            \A p \in issued : p[1] \in DOMAIN receipts' /\ receipts'[p[1]] = p[2]
       /\ \A h \in Handlers :
            (~crashed' /\ req'[h].route = "points" /\ pc'[h] # pc[h]) => receipts' = receipts]_vars

\* An identifier that is non-empty and holds no whitespace
IsWellFormedId(s) == Len(s) > 0 /\ \A i \in 1..Len(s) : s[i] \notin SpaceChars

\* C6: a request for points with the right verb is answered 200 with the
\* points of the receipt if and only if the identifier is well-formed and a key
\* of the map, and 404 in every other case; with the wrong verb it is answered
\* 405. (A request that runs while its identifier is being inserted may be
\* answered either way: an identifier that was a key when the request arrived
\* must be answered 200, and 200 is only ever the answer for a key.)
C6_GetPointsResult ==
    [][\A h \in Handlers :
        (Answers(h) /\ req'[h].route = "points")
        => IF req'[h].method # "GET"
           THEN resp'[h].status = StatusMethodNotAllowed
           ELSE /\ resp'[h].status \in {StatusOK, StatusNotFound}
                /\ resp'[h].status = StatusOK
                   => /\ IsWellFormedId(req'[h].pathId)
                      /\ req'[h].pathId \in DOMAIN receipts'
                      /\ resp'[h].Points = Points(receipts'[req'[h].pathId])
                /\ (IsWellFormedId(req'[h].pathId) /\ known'[h])
                   => resp'[h].status = StatusOK]_vars

\* The handler h has answered 200 to a request for the points of receipt
Scored(h, receipt) ==
    /\ pc[h] = "done"
    /\ req[h].route = "points"
    /\ resp[h].status = StatusOK
    /\ req[h].pathId \in DOMAIN receipts
    /\ receipts[req[h].pathId] = receipt

\* C7: the points answered for the reference receipt A are 28 and those
\* answered for the reference receipt B are 109.
C7_ReferenceScores ==
    \A h \in Handlers :
        /\ Scored(h, ScenarioA) => resp[h].Points = 28
        /\ Scored(h, ScenarioB) => resp[h].Points = 109

C7_Witness ==
    /\ \E h \in Handlers : Scored(h, ScenarioA) /\ resp[h].Points = 28
    /\ \E key \in DOMAIN receipts : receipts[key] = ScenarioB

\* The cents of a total that matches the price pattern, modulo 100: its two
\* fraction digits
CentsMod100(total) == Atoi(SubSeq(total, Len(total) - 1, Len(total)))

\* C8: for every stored receipt whose total matches the price pattern, the
\* total earns 75 points when its cents are a multiple of 100, 25 when they are
\* a multiple of 25 but not of 100, and 0 otherwise.
C8_TotalRule ==
    \A key \in DOMAIN receipts :
        priceRegExp(Deref(receipts[key].Total))
        => TotalPoints(receipts[key]) =
              (IF CentsMod100(Deref(receipts[key].Total)) = 0 THEN 75
               ELSE IF CentsMod100(Deref(receipts[key].Total)) % 25 = 0 THEN 25
               ELSE 0)

\* The cents of a price that matches the price pattern (small prices only)
Cents(price) == Atoi(DigitsOf(price))

\* C9: every item of a stored receipt adds ceil(cents / 500) points if its
\* trimmed description has a length greater than 0 and a multiple of 3, and 0
\* points otherwise.
C9_ItemRule ==
    \A key \in DOMAIN receipts :
        \A i \in 1..Len(Deref(receipts[key].Items)) :
            LET item    == Deref(receipts[key].Items)[i]
                trimmed == Len(TrimSpace(Deref(item.ShortDescription)))
            IN  ItemPoints(item) =
                   (IF trimmed > 0 /\ trimmed % 3 = 0
                    THEN (Cents(Deref(item.Price)) + 499) \div 500
                    ELSE 0)

\* The first check a body fails, the checks numbered as main.go runs them:
\* 1 fields present, 2 retailer, 3 purchase date, 4 purchase time, 5 items
\* non-empty, 6 the items' fields and patterns (0: none fails)
FirstFailingCheck(body) ==
    IF \/ body.err
       \/ IsNil(body.rs.Retailer) \/ IsNil(body.rs.PurchaseDate)
       \/ IsNil(body.rs.PurchaseTime) \/ IsNil(body.rs.Items) \/ IsNil(body.rs.Total)
    THEN 1
    ELSE IF ~matchRetailer(Deref(body.rs.Retailer)) THEN 2
    ELSE IF ParseDate(Deref(body.rs.PurchaseDate)).err THEN 3
    ELSE IF ParseTime(Deref(body.rs.PurchaseTime)).err THEN 4
    ELSE IF Len(Deref(body.rs.Items)) = 0 THEN 5
    ELSE IF \E i \in 1..Len(Deref(body.rs.Items)) : ~IsSchemaItem(Deref(body.rs.Items)[i])
    THEN 6
    ELSE 0

\* The same with the checks numbered as the specification lists them: 1 fields
\* present and items non-empty, 2 retailer, 3 purchase date, 4 purchase time,
\* 5 the items' fields and patterns
FirstFailingListedCheck(body) ==
    IF FirstFailingCheck(body) = 1 THEN 1
    ELSE IF Len(Deref(body.rs.Items)) = 0 THEN 1
    ELSE IF FirstFailingCheck(body) = 6 THEN 5
    ELSE FirstFailingCheck(body)

\* The check a diagnostic message belongs to, in the order of main.go
CheckOfMessage(log) ==
    CASE log = "missing fields" -> 1
      [] log = "invalid retailer" -> 2
      [] log = "invalid purchase date" -> 3
      [] log = "invalid purchase time" -> 4
      [] log = "no items" -> 5
      [] log \in {"item with missing fields", "invalid short description in the item",
                  "invalid price in the item"} -> 6
      [] OTHER -> 0

\* ... and in the order the specification lists
ListedCheckOfMessage(log) ==
    CASE CheckOfMessage(log) = 5 -> 1
      [] CheckOfMessage(log) = 6 -> 5
      [] OTHER -> CheckOfMessage(log)

\* The handler h has rejected the receipt it was sent
Rejected(h) ==
    /\ pc[h] = "done"
    /\ req[h].route = "process"
    /\ resp[h].status = StatusBadRequest

\* C10 as stated: the one message recorded for a rejected receipt is that of
\* the first check it fails in the listed order, where an empty item list
\* fails check 1.
C10_ListedOrder ==
    \A h \in Handlers :
        Rejected(h) => ListedCheckOfMessage(resp[h].log) = FirstFailingListedCheck(req[h].body)

\* C10 as amended: the one message recorded for a rejected receipt is that of
\* the first check it fails in the order fields present, retailer, purchase
\* date, purchase time, items non-empty, items' fields and patterns.
C10_CodeOrder ==
    \A h \in Handlers :
        Rejected(h) => CheckOfMessage(resp[h].log) = FirstFailingCheck(req[h].body)

C10_Witness ==
    \E h \in Handlers :
        /\ Rejected(h)
        /\ req[h].body = Decoded(EmptyItemsBadRetailer)
        /\ resp[h].log = "invalid retailer"
====
